---- MODULE Spec2Model ----
(***************************************************************************)
(* Model of mc_console_ctrl: the interactive command loop                  *)
(* (MinecraftConsole.start), the command handlers (CommandRegistry) and    *)
(* the tmux transport and table loading (MinecraftServer).                 *)
(*                                                                         *)
(* All text (input lines, tokens, resource ids, outbound commands, stored  *)
(* values) is modelled as strings, and Python's string operations are      *)
(* computed character by character.                                        *)
(***************************************************************************)
EXTENDS Integers, Sequences, FiniteSets, TLC

(***************************************************************************)
(* Python string primitives used by the handlers.                          *)
(***************************************************************************)
Ch(s, i) == SubSeq(s, i, i)

UpperChars == "ABCDEFGHIJKLMNOPQRSTUVWXYZ"
LowerChars == "abcdefghijklmnopqrstuvwxyz"
DigitChars == "0123456789"
\* printable ASCII in code-point order, without the double quote (34), the
\* backslash (92) and the backquote (96), which no modelled text contains
AsciiLow == "#$%&'()*+,-./0123456789:;<=>?@ABCDEFGHIJKLMNOPQRSTUVWXYZ["
AsciiMid == "]^_"
AsciiHigh == "abcdefghijklmnopqrstuvwxyz{|}~"

CharsOf(table) == {Ch(table, i) : i \in 1..Len(table)}
IndexIn(c, table) == CHOOSE i \in 1..Len(table) : Ch(table, i) = c

Chars == {"\t", " ", "!"} \cup CharsOf(AsciiLow) \cup CharsOf(AsciiMid) \cup CharsOf(AsciiHigh)
Digits == CharsOf(DigitChars)

\* code point of a character (tab is 9)
Ord == [c \in Chars |->
          IF c = "\t" THEN 9
          ELSE IF c = " " THEN 32
          ELSE IF c = "!" THEN 33
          ELSE IF c \in CharsOf(AsciiLow) THEN 34 + IndexIn(c, AsciiLow)
          ELSE IF c \in CharsOf(AsciiMid) THEN 92 + IndexIn(c, AsciiMid)
          ELSE 96 + IndexIn(c, AsciiHigh)]

LowerCh == [c \in Chars |->
              IF c \in CharsOf(UpperChars) THEN Ch(LowerChars, IndexIn(c, UpperChars)) ELSE c]

DigitVal == [c \in Digits |-> IndexIn(c, DigitChars) - 1]

\* str.lower(), character by character
RECURSIVE LowerOf(_)
LowerOf(s) == IF s = "" THEN "" ELSE LowerCh[Ch(s, 1)] \o LowerOf(Tail(s))

\* the characters str.split() treats as separators
IsSpace(c) == c \in {" ", "\t"}

RECURSIVE SplitAcc(_, _, _, _)
SplitAcc(s, i, cur, acc) ==
    IF i > Len(s)
    THEN IF cur = "" THEN acc ELSE Append(acc, cur)
    ELSE IF IsSpace(Ch(s, i))
         THEN SplitAcc(s, i + 1, "", IF cur = "" THEN acc ELSE Append(acc, cur))
         ELSE SplitAcc(s, i + 1, cur \o Ch(s, i), acc)

\* str.split(): the maximal runs of non-whitespace characters, in order
SplitOf(s) == SplitAcc(s, 1, "", <<>>)

RECURSIVE LStrip(_)
LStrip(s) == IF s # "" /\ IsSpace(Ch(s, 1)) THEN LStrip(Tail(s)) ELSE s

RECURSIVE FirstWordLen(_, _)
FirstWordLen(s, i) == IF i > Len(s) \/ IsSpace(Ch(s, i)) THEN i - 1 ELSE FirstWordLen(s, i + 1)

\* str.split(maxsplit=1): the first word, then the rest of the line with
\* the whitespace before it removed and everything after it kept
split_maxsplit1(s) ==
    LET t == LStrip(s)
        n == FirstWordLen(t, 1)
        rest == LStrip(SubSeq(t, n + 1, Len(t)))
    IN  IF t = "" THEN <<>>
        ELSE IF rest = "" THEN <<SubSeq(t, 1, n)>>
        ELSE <<SubSeq(t, 1, n), rest>>

\* sep.join(parts)
RECURSIVE join(_, _)
join(sep, parts) ==
    IF parts = <<>> THEN ""
    ELSE IF Len(parts) = 1 THEN parts[1]
    ELSE parts[1] \o sep \o join(sep, Tail(parts))

\* variant of replace: only the first occurrence of old is replaced
replace_first(s, old, new) ==
    LET hits == {i \in 1..Len(s) : Ch(s, i) = old}
    IN  IF hits = {} THEN s
        ELSE LET k == CHOOSE i \in hits : \A j \in hits : i <= j
             IN  SubSeq(s, 1, k - 1) \o new \o SubSeq(s, k + 1, Len(s))

\* str.replace(old, new) for a single character old
RECURSIVE replace(_, _, _)
replace(s, old, new) ==
    IF s = "" THEN ""
    ELSE (IF Ch(s, 1) = old THEN new ELSE Ch(s, 1)) \o replace(Tail(s), old, new)

\* str.split(sep) for a single character sep: empty fields are kept
RECURSIVE SplitOnAcc(_, _, _, _, _)
SplitOnAcc(s, sep, i, cur, acc) ==
    IF i > Len(s) THEN Append(acc, cur)
    ELSE IF Ch(s, i) = sep
         THEN SplitOnAcc(s, sep, i + 1, "", Append(acc, cur))
         ELSE SplitOnAcc(s, sep, i + 1, cur \o Ch(s, i), acc)

\* variant of split_on: the text is not cut
split_on_whole(s, sep) == <<s>>

split_on(s, sep) == SplitOnAcc(s, sep, 1, "", <<>>)

\* sub in s
Contains(sub, s) == \E i \in 0..(Len(s) - Len(sub)) : SubSeq(s, i + 1, i + Len(sub)) = sub

\* s.startswith(prefix)
startswith(s, prefix) == Len(s) >= Len(prefix) /\ SubSeq(s, 1, Len(prefix)) = prefix

\* a < b in Python's string order (code points, shorter prefix first)
RECURSIVE StrLess(_, _)
StrLess(a, b) ==
    IF b = "" THEN FALSE
    ELSE IF a = "" THEN TRUE
    ELSE IF Ch(a, 1) = Ch(b, 1) THEN StrLess(Tail(a), Tail(b))
    ELSE Ord[Ch(a, 1)] < Ord[Ch(b, 1)]

\* variant of sorted: descending
RECURSIVE sorted_desc(_)
sorted_desc(S) ==
    IF S = {} THEN <<>>
    ELSE LET m == CHOOSE x \in S : \A y \in S \ {x} : StrLess(y, x)
         IN  <<m>> \o sorted_desc(S \ {m})

\* sorted(set of strings)
RECURSIVE sorted(_)
sorted(S) ==
    IF S = {} THEN <<>>
    ELSE LET m == CHOOSE x \in S : \A y \in S \ {x} : StrLess(x, y)
         IN  <<m>> \o sorted(S \ {m})

\* set(list)
ToSet(seq) == {seq[i] : i \in 1..Len(seq)}

(***************************************************************************)
(* Tables.  A DataFrame is a sequence of rows, each carrying its index     *)
(* label idx; an attribute that holds no DataFrame (None, or never         *)
(* assigned) has isdf = FALSE.                                             *)
(***************************************************************************)
NoDF == [isdf |-> FALSE, rows |-> <<>>]
DF(rows) == [isdf |-> TRUE, rows |-> rows]

\* df.loc[label] = row: overwrite the row carrying that label, else append
LocAssign(rows, label, row) ==
    IF \E i \in 1..Len(rows) : rows[i].idx = label
    THEN [i \in 1..Len(rows) |-> IF rows[i].idx = label THEN row ELSE rows[i]]
    ELSE Append(rows, row)

\* a cell of the enchantment_max_level column as pandas delivers it
IntCell(n) == [k |-> "int", v |-> n]
FloatCell(n) == [k |-> "float", v |-> n]
NaNCell == [k |-> "nan", v |-> 0]
NoneCell == [k |-> "none", v |-> 0]

\* the resources table of data.sqlite, in load order; ml = 0 stands for a
\* NULL enchantment_max_level, at = "" for a NULL enchantment_applies_to
ResourcesTable == <<
    [rl |-> "Dirt",         rt |-> "block",       ml |-> 0, at |-> ""],
    [rl |-> "Sharpness",    rt |-> "enchantment", ml |-> 3, at |-> "sword,axe"],
    [rl |-> "dirt",         rt |-> "item",        ml |-> 0, at |-> ""],
    [rl |-> "Speed",        rt |-> "effect",      ml |-> 0, at |-> ""],
    [rl |-> "sand",         rt |-> "block",       ml |-> 0, at |-> ""],
    [rl |-> "Sandstone",    rt |-> "item",        ml |-> 0, at |-> ""],
    [rl |-> "mending",      rt |-> "enchantment", ml |-> 0, at |-> "any"],
    [rl |-> "red_sand",     rt |-> "block",       ml |-> 0, at |-> ""],
    [rl |-> "slowness",     rt |-> "effect",      ml |-> 0, at |-> ""],
    [rl |-> "diamond",      rt |-> "item",        ml |-> 0, at |-> ""],
    [rl |-> "diorite",      rt |-> "block",       ml |-> 0, at |-> ""],
    [rl |-> "efficiency",   rt |-> "enchantment", ml |-> 5, at |-> "pickaxe,shovel"],
    [rl |-> "haste",        rt |-> "effect",      ml |-> 0, at |-> ""],
    [rl |-> "power",        rt |-> "enchantment", ml |-> 5, at |-> "bow"],
    [rl |-> "strength",     rt |-> "effect",      ml |-> 0, at |-> ""],
    [rl |-> "multishot",    rt |-> "enchantment", ml |-> 1, at |-> "crossbow"],
    [rl |-> "resistance",   rt |-> "effect",      ml |-> 0, at |-> ""],
    [rl |-> "unbreaking",   rt |-> "enchantment", ml |-> 3, at |-> ""],
    [rl |-> "saturation",   rt |-> "effect",      ml |-> 0, at |-> ""],
    [rl |-> "protection",   rt |-> "enchantment", ml |-> 4, at |-> "armor"] >>

\* pd.read_sql_query("SELECT * FROM resources"): a NULL of a numeric
\* (float64) column is read as NaN and its numbers as floats; in an object
\* column NULL is read as None and the numbers stay ints.  has_at records
\* enchantment_applies_to.notna().
ReadResources(dtype) ==
    [i \in 1..Len(ResourcesTable) |->
        LET r == ResourcesTable[i]
        IN  [idx |-> i - 1, rl |-> r.rl, rt |-> r.rt,
             ml |-> IF r.ml = 0
                    THEN (IF dtype = "float64" THEN NaNCell ELSE NoneCell)
                    ELSE (IF dtype = "float64" THEN FloatCell(r.ml) ELSE IntCell(r.ml)),
             has_at |-> r.at # "", at |-> r.at]]

MaxLevelDtypes == {"float64", "object"}

\* the settings and named_pos tables of data.sqlite before the program runs
InitialSettings == <<
    [setting |-> "tmux_session", value |-> "mc"],
    [setting |-> "default_player", value |-> "steve"],
    [setting |-> "players", value |-> "alex,steve"] >>

InitialNamedPos == << [pos_name |-> "home", pos_value |-> "100 64 200"] >>

\* read_sql_query gives the rows the index labels 0, 1, 2, ...
ReadTable(table) ==
    [i \in 1..Len(table) |-> [idx |-> i - 1] @@ table[i]]

(***************************************************************************)
(* int() and str() on the literals a token can hold.                       *)
(***************************************************************************)
HasSign(s) == s # "" /\ Ch(s, 1) \in {"+", "-"}
StripSign(s) == IF HasSign(s) THEN Tail(s) ELSE s

\* digits with single underscores allowed between digits
IsDigitPart(s) ==
    /\ s # ""
    /\ \A i \in 1..Len(s) : Ch(s, i) \in Digits \/ Ch(s, i) = "_"
    /\ Ch(s, 1) # "_" /\ Ch(s, Len(s)) # "_"
    /\ \A i \in 1..(Len(s) - 1) : ~(Ch(s, i) = "_" /\ Ch(s, i + 1) = "_")

\* int(s) succeeds
IsIntLiteral(s) == IsDigitPart(StripSign(s))

RECURSIVE DigitsVal(_, _)
DigitsVal(s, acc) ==
    IF s = "" THEN acc
    ELSE IF Ch(s, 1) = "_" THEN DigitsVal(Tail(s), acc)
    ELSE DigitsVal(Tail(s), 10 * acc + DigitVal[Ch(s, 1)])

\* int(s), for IsIntLiteral(s)
IntVal(s) ==
    IF Ch(s, 1) = "-" THEN 0 - DigitsVal(StripSign(s), 0) ELSE DigitsVal(StripSign(s), 0)

RECURSIVE NatToStr(_)
NatToStr(n) == IF n < 10 THEN Ch(DigitChars, n + 1)
               ELSE NatToStr(n \div 10) \o Ch(DigitChars, (n % 10) + 1)

\* str(n) for an int n
IntToStr(n) == IF n < 0 THEN "-" \o NatToStr(0 - n) ELSE NatToStr(n)

(***************************************************************************)
(* Inputs: the lines typed at the prompt and the environment's answers.    *)
(***************************************************************************)
\* integer arguments range over -MaxLevelArg..MaxLevelArg and, for the
\* amplifier, over 255-AmpSpan..255+AmpSpan as well
MaxLevelArg == 4
AmpSpan == 2
\* the transport calls of one handler that may fail: the first MaxFailIndex
MaxFailIndex == 3
\* the rows of the named_pos table of the database: at most MaxStored
MaxStored == 4

IntArgs == {IntToStr(n) : n \in (0 - MaxLevelArg)..MaxLevelArg}
LevelArgs == IntArgs \cup {"10", "+2", "abc", "2.5"}
SecondsArgs == {IntToStr(n) : n \in (0 - AmpSpan)..AmpSpan} \cup {"-5", "30", "99999", "x"}
AmplifierArgs == {IntToStr(n) : n \in (0 - AmpSpan)..AmpSpan}
                 \cup {IntToStr(n) : n \in (255 - AmpSpan)..(255 + AmpSpan)}
                 \cup {"-5", "300", "+7", "x"}

OneCall == [relay_fail : {{}, {1}}, db_ok : {TRUE}]
ManyCalls == [relay_fail : SUBSET (1..MaxFailIndex), db_ok : {TRUE}]
StoreWrite == [relay_fail : {{}}, db_ok : BOOLEAN]
WriteOk == [relay_fail : {{}}, db_ok : {TRUE}]
NoEnv == [relay_fail |-> {}, db_ok |-> TRUE]

BlankLines == {"", " ", " \t "}
UnknownLines == {"giv steve Dirt 1", "Give steve Dirt", "gives", "helpme", " foo bar", "quit"}
HelpLines == {"help", "help me", "  help  "}
ExitLines == {"exit", "exit now", "\texit"}
ScLines == {"sc", "sc ", "sc say hi", "sc  give   steve junk 1", "sc list"}
RawLines == {"raw", "raw  ", "raw say  hi ", "raw give steve junk"}

GiveItems == {"Dirt", "DIRT", "dIrT", "sandstone", "RED_sand", "d", "AND", "zz", "Sharpness"}
GiveLines == {"give", "give steve", " give\tsteve  DIRT  3  extra"}
             \cup {"give steve " \o item : item \in GiveItems}
             \cup {"give alex " \o item \o " " \o q : item \in {"dirt", "D", "zz"},
                                                       q \in {"64", "lots"}}

EnchantIds == {"Sharpness", "mending", "MULTISHOT"}
EnchantOthers == {"sharpness", "Mending", "e", "ing", "zz", "Speed"}
EnchantLines == {"enchant", "enchant steve"}
                \cup {"enchant steve " \o e : e \in EnchantIds \cup EnchantOthers}
                \cup {"enchant steve " \o e \o " " \o l : e \in EnchantIds, l \in LevelArgs}
                \cup {"enchant steve " \o e \o " 2" : e \in EnchantOthers}
                \cup {"enchant steve unbreaking 9", "enchant steve Efficiency 007"}

EffectIds == {"Speed", "speed", "SLOWNESS", "Haste"}
EffectMisses == {"s", "ST", "zz", "mending"}
EffectLines == {"effect", "effect steve", "effect steve speed 10 1 false extra",
                "effect steve speed 0 300", "effect steve speed -5 -5 false",
                "effect steve SLOWNESS x 256", "effect steve SLOWNESS 99999 x"}
               \cup {"effect steve " \o e : e \in EffectIds \cup EffectMisses}
               \cup {"effect steve SLOWNESS " \o sec : sec \in SecondsArgs}
               \cup {"effect steve speed 30 " \o amp : amp \in AmplifierArgs}
               \cup {"effect steve " \o e \o " 5 1" : e \in EffectMisses}

EffectClearLines == {"effectclear", "effectclear steve", "effectclear  Alex ",
                     "effectclear steve now", "effectclear steve speed 1"}
MaxEnchantLines == {"maxenchant", "maxenchant sword", "maxenchant sword steve",
                    "maxenchant SWORD steve", "maxenchant bow steve", "maxenchant axe steve",
                    "maxenchant armor steve", "maxenchant zz steve", "maxenchant any steve",
                    "maxenchant diamond sword steve"}
NamedPosLines == {"namedpos", "namedpos move", "namedpos list", "namedpos LIST",
                  "namedpos add", "namedpos add base", "namedpos add base 1 2",
                  "namedpos add base 1 2 3", "namedpos add base 1,2,3 4",
                  "namedpos add base 1,2,3", "namedpos add here ~ ~+5 ~",
                  "namedpos add home 0 0 0", "namedpos add base ~ ~ ~",
                  "namedpos add base a b c", "namedpos del", "namedpos del home",
                  "namedpos del nowhere now"}
PlayerLines == {"player", "player drop", "player list", "player add", "player del",
                "player add bob", "player add steve", "player del zed"}
TpLines == {"tp", "tp steve", "tp steve 1 2 3", "tp steve 1,2,3", "tp steve 1 2",
            "tp steve 1 2 3 4", "tp steve home", "tp steve base", "tp steve nowhere",
            "tp steve @alex", "tp steve ~ ~+5 ~", "tp steve ~-1.5 64 ~2", "tp steve a b c",
            "tp steve ~x 1 2", "tp steve 1 2 z", "tp steve ~+abc 1 2",
            "tp steve 10,20", "tp steve 1, 2 ,3", "tp steve ~ ~-x ~"}
\* the lines of a session that edits the named positions and travels to
\* them, and of a session that edits the player list
PositionLines == {"namedpos add base 1 2 3", "namedpos add cave 4,5,6",
                  "namedpos add base 7 8 9", "namedpos del home now",
                  "namedpos del base now", "namedpos del cave now",
                  "namedpos del nowhere now", "namedpos list"}
TravelLines == {"tp steve home", "tp steve base", "tp steve cave", "tp alex nowhere"}
PlayerSetLines == {"player add bob", "player add steve", "player add alex",
                   "player add alex,bob", "player del steve", "player del alex",
                   "player del bob", "player del zed", "player del alex,bob",
                   "player list"}
QgLines == {"qg", "qg Dirt", "qg DIRT 5", "qg zz", "qg d 2", "qg  sandstone  7  extra"}

(***************************************************************************)
(* str.lower() and str.split() of the texts that occur in the inputs and   *)
(* the catalog are computed once; any other text is computed on demand.    *)
(***************************************************************************)
AllLines == BlankLines \cup UnknownLines \cup HelpLines \cup ExitLines \cup ScLines
            \cup RawLines \cup GiveLines \cup EnchantLines \cup EffectLines
            \cup EffectClearLines \cup MaxEnchantLines \cup NamedPosLines \cup PlayerLines
            \cup TpLines \cup QgLines \cup PositionLines \cup TravelLines
            \cup PlayerSetLines

SplitCache == [l \in AllLines |-> SplitOf(l)]

KnownTexts == UNION {ToSet(SplitOf(l)) : l \in AllLines}
              \cup {ResourcesTable[i].rl : i \in 1..Len(ResourcesTable)}
              \cup {ResourcesTable[i].rt : i \in 1..Len(ResourcesTable)}
              \cup {ResourcesTable[i].at : i \in 1..Len(ResourcesTable)}

LowerCache == [t \in KnownTexts |-> LowerOf(t)]

\* str.lower()
lower(s) == IF s \in DOMAIN LowerCache THEN LowerCache[s] ELSE LowerOf(s)

\* str.split()
split(s) == IF s \in DOMAIN SplitCache THEN SplitCache[s] ELSE SplitOf(s)

(***************************************************************************)
(* float() on the literals a token can hold.                               *)
(***************************************************************************)
IsMantissa(m) ==
    \/ IsDigitPart(m)
    \/ \E k \in 1..Len(m) :
          /\ Ch(m, k) = "."
          /\ LET a == SubSeq(m, 1, k - 1)
                 b == SubSeq(m, k + 1, Len(m))
             IN  /\ a = "" \/ IsDigitPart(a)
                 /\ b = "" \/ IsDigitPart(b)
                 /\ a # "" \/ b # ""

IsFloatNumber(u) ==
    \/ IsMantissa(u)
    \/ \E k \in 1..Len(u) :
          /\ Ch(u, k) \in {"e", "E"}
          /\ IsMantissa(SubSeq(u, 1, k - 1))
          /\ IsDigitPart(StripSign(SubSeq(u, k + 1, Len(u))))

\* float(s) succeeds
IsFloatLiteral(s) ==
    LET u == StripSign(s)
    IN  lower(u) \in {"inf", "infinity", "nan"} \/ IsFloatNumber(u)

(***************************************************************************)
(* State.                                                                  *)
(***************************************************************************)
VARIABLES
    pc,            \* position of main(): "init", "prompt", "handled", "exited", "stopped"
    is_windows,    \* MinecraftServer._is_windows
    connected,     \* MinecraftServer._connected
    resources_df,  \* MinecraftServer.resources_df
    settings_df,   \* MinecraftServer.settings_df
    named_pos_df,  \* MinecraftServer.named_pos_df (isdf = FALSE: never assigned)
    db_settings,   \* table settings of data.sqlite
    db_named_pos,  \* table named_pos of data.sqlite
    command,       \* the line the current iteration of the loop read
    invoked,       \* handler calls of the current iteration: <<handler, argument>>
    sent,          \* MinecraftServer.send_command calls of the current iteration
    out,           \* what the current iteration printed
    raised         \* what the body of the current iteration raised: "none",
                   \* "Exception" (caught by the loop) or "SystemExit"

vars == <<pc, is_windows, connected, resources_df, settings_df, named_pos_df,
          db_settings, db_named_pos, command, invoked, sent, out, raised>>

Note(kind, arg) == [kind |-> kind, arg |-> arg, list |-> <<>>]
NoteList(kind, arg, list) == [kind |-> kind, arg |-> arg, list |-> list]

\* MinecraftServer.__init__, before main() runs startup()
Init ==
    /\ pc = "init"
    /\ is_windows \in BOOLEAN
    /\ connected = FALSE
    /\ resources_df = NoDF
    /\ settings_df = NoDF
    /\ named_pos_df = NoDF
    /\ db_settings = InitialSettings
    /\ db_named_pos = InitialNamedPos
    /\ command = ""
    /\ invoked = <<>>
    /\ sent = <<>>
    /\ out = <<>>
    /\ raised = "none"

(***************************************************************************)
(* MinecraftServer: loading the tables, startup, the transport.            *)
(***************************************************************************)
\* how far _load_database gets: sqlite3.connect raises sqlite3.Error, or
\* the read of one table raises pandas' DatabaseError, or all four load
LoadOutcomes == {"ok", "connect_error", "commands_error", "resources_error",
                 "settings_error", "named_pos_error"}

\* _load_database: the tables assigned before the failing step stay
\* assigned; only sqlite3.Error is caught there (raised = FALSE)
_load_database(load, dtype) ==
    [resources_df |-> IF load \in {"ok", "settings_error", "named_pos_error"}
                      THEN DF(ReadResources(dtype)) ELSE resources_df,
     settings_df  |-> IF load \in {"ok", "named_pos_error"}
                      THEN DF(ReadTable(db_settings)) ELSE settings_df,
     named_pos_df |-> IF load = "ok" THEN DF(ReadTable(db_named_pos)) ELSE named_pos_df,
     raised       |-> load \notin {"ok", "connect_error"}]

\* startup(): an exception of _load_database skips the session check and
\* leaves the connection flag as it is; otherwise the flag is set on
\* Windows, and on Linux only when the tmux session exists
startup_connected(loaded, tmux_exists) ==
    IF loaded.raised THEN connected
    ELSE IF ~is_windows THEN (IF tmux_exists THEN TRUE ELSE connected)
    ELSE TRUE

startup ==
    /\ pc = "init"
    /\ \E load \in LoadOutcomes, dtype \in MaxLevelDtypes, tmux_exists \in BOOLEAN :
          LET loaded == _load_database(load, dtype)
          IN  /\ resources_df' = loaded.resources_df
              /\ settings_df' = loaded.settings_df
              /\ named_pos_df' = loaded.named_pos_df
              /\ connected' = startup_connected(loaded, tmux_exists)
    /\ pc' = "prompt"
    /\ UNCHANGED <<is_windows, db_settings, db_named_pos, command, invoked, sent, out, raised>>

\* MinecraftServer.send_command(command); relay_ok: the tmux send-keys
\* invocation exits with status 0
server_send_command(text, relay_ok) ==
    IF ~connected
    THEN [call |-> [text |-> text, outcome |-> "refused"], raised |-> TRUE,
          out |-> <<>>, result |-> "Not connected to Minecraft server"]
    ELSE IF is_windows
    THEN [call |-> [text |-> text, outcome |-> "logged"], raised |-> FALSE,
          out |-> <<Note("would_send", text)>>,
          result |-> "Command logged (Windows development mode)"]
    ELSE IF relay_ok
    THEN [call |-> [text |-> text, outcome |-> "relayed"], raised |-> FALSE,
          out |-> <<>>, result |-> "Command sent successfully"]
    ELSE [call |-> [text |-> text, outcome |-> "failed"], raised |-> TRUE,
          out |-> <<Note("failed_to_send", text)>>, result |-> "relay failed"]

(***************************************************************************)
(* CommandRegistry: the handlers.  A handler is an operator from the line  *)
(* and the environment's answers to what it did: the transport calls, the  *)
(* printed notices, the tables afterwards and whether it raised.           *)
(* env.relay_fail is the set of transport calls of this handler (first,    *)
(* second, ...) whose tmux invocation fails; env.db_ok says whether the    *)
(* sqlite write of this handler succeeds.                                  *)
(***************************************************************************)
Ret == [sent |-> <<>>, out |-> <<>>, raised |-> "none",
        settings_df |-> settings_df, named_pos_df |-> named_pos_df,
        db_settings |-> db_settings, db_named_pos |-> db_named_pos]

Printed(notes) == [Ret EXCEPT !.out = notes]

\* variant of Relay: the handler lets the exception of the transport pass
Relay_reraise(text, relay_ok, errkind) ==
    LET r == server_send_command(text, relay_ok)
    IN  [Ret EXCEPT !.sent = <<r.call>>,
                    !.out = r.out \o (IF r.raised THEN <<>> ELSE <<Note("result", r.result)>>),
                    !.raised = IF r.raised THEN "Exception" ELSE "none"]

\* result = await self.minecraft_server.send_command(mc_command), then the
\* green result line, or the handler's except clause printing its error
Relay(text, relay_ok, errkind) ==
    LET r == server_send_command(text, relay_ok)
    IN  [Ret EXCEPT !.sent = <<r.call>>,
                    !.out = r.out \o <<IF r.raised THEN Note(errkind, r.result)
                                       ELSE Note("result", r.result)>>]

After(notes, ret) == [ret EXCEPT !.out = notes \o @]

\* help
help_command(cmd_line, env) ==
    Printed(<<NoteList("help", "", sorted({"help", "exit", "sc", "raw", "give",
        "enchant", "effect", "effectclear", "maxenchant", "namedpos", "player",
        "qg", "tp"}))>>)

\* variant of exit_command: signals the exit with an ordinary exception
exit_command_plain(cmd_line, env) ==
    [Ret EXCEPT !.out = <<Note("goodbye", "")>>, !.raised = "Exception"]

\* exit: SystemExit is not an Exception
exit_command(cmd_line, env) ==
    [Ret EXCEPT !.out = <<Note("goodbye", "")>>, !.raised = "SystemExit"]

\* sc <mc-command...>
send_command(cmd_line, env) ==
    LET args == Tail(split(cmd_line))
    IN  IF args = <<>> THEN Printed(<<Note("usage", "sc")>>)
        ELSE Relay(join(" ", args), 1 \notin env.relay_fail, "error_sending")

\* raw <text...>
raw_command(cmd_line, env) ==
    LET args == Tail(split_maxsplit1(cmd_line))
    IN  IF args = <<>> THEN Printed(<<Note("usage", "raw")>>)
        ELSE Relay(args[1], 1 \notin env.relay_fail, "error_sending")

\* the suggestion loop: rows in order, ids containing the lowercased token,
\* break once five are collected
MaxSuggestions == 5

\* variant of CollectSuggestions: ids that start with the token
RECURSIVE CollectSuggestions_prefix(_, _, _)
CollectSuggestions_prefix(rows, token, acc) ==
    IF rows = <<>> THEN acc
    ELSE IF startswith(lower(rows[1].rl), lower(token))
         THEN IF Len(acc) + 1 >= MaxSuggestions
              THEN Append(acc, rows[1].rl)
              ELSE CollectSuggestions_prefix(Tail(rows), token, Append(acc, rows[1].rl))
         ELSE CollectSuggestions_prefix(Tail(rows), token, acc)

RECURSIVE CollectSuggestions(_, _, _)
CollectSuggestions(rows, token, acc) ==
    IF rows = <<>> THEN acc
    ELSE IF Contains(lower(token), lower(rows[1].rl))
         THEN IF Len(acc) + 1 >= MaxSuggestions
              THEN Append(acc, rows[1].rl)
              ELSE CollectSuggestions(Tail(rows), token, Append(acc, rows[1].rl))
         ELSE CollectSuggestions(Tail(rows), token, acc)

\* variant of give_rows: no filter on resource_type
give_rows_any == resources_df.rows

give_rows == SelectSeq(resources_df.rows, LAMBDA r : r.rt \in {"block", "item"})
enchant_rows == SelectSeq(resources_df.rows, LAMBDA r : lower(r.rt) = "enchantment")
effect_rows == SelectSeq(resources_df.rows, LAMBDA r : lower(r.rt) = "effect")

\* variant of Matching: the typed casing must match
Matching_cased(rows, token) == SelectSeq(rows, LAMBDA r : r.rl = token)

\* exact case-insensitive match on "Resource location"
Matching(rows, token) == SelectSeq(rows, LAMBDA r : lower(r.rl) = lower(token))

\* variant of give_command: no return after the invalid-item notice
give_command_noreturn(cmd_line, env) ==
    LET parts == split(cmd_line)
    IN  IF Len(parts) < 3 THEN Printed(<<Note("usage", "give")>>)
        ELSE
        LET player == parts[2]
            item == parts[3]
            quantity == IF Len(parts) > 3 THEN parts[4] ELSE "1"
            item_data == Matching(give_rows, item)
            missing == resources_df.isdf /\ item_data = <<>>
        IN  After(IF missing
                  THEN <<NoteList("invalid_item", item, CollectSuggestions(give_rows, item, <<>>))>>
                  ELSE <<>>,
                  Relay("give " \o player \o " "
                           \o (IF resources_df.isdf /\ ~missing THEN item_data[1].rl ELSE item)
                           \o " " \o quantity,
                        1 \notin env.relay_fail, "error_giving"))

\* give <player> <item> [qty]
give_command(cmd_line, env) ==
    LET parts == split(cmd_line)
    IN  IF Len(parts) < 3 THEN Printed(<<Note("usage", "give")>>)
        ELSE
        LET player == parts[2]
            item == parts[3]
            quantity == IF Len(parts) > 3 THEN parts[4] ELSE "1"
            item_data == Matching(give_rows, item)
        IN  IF resources_df.isdf /\ item_data = <<>>
            THEN Printed(<<NoteList("invalid_item", item,
                                    CollectSuggestions(give_rows, item, <<>>))>>)
            ELSE Relay("give " \o player \o " "
                          \o (IF resources_df.isdf THEN item_data[1].rl ELSE item)
                          \o " " \o quantity,
                       1 \notin env.relay_fail, "error_giving")

\* Python truth value, `x or 1`, comparison, min and str on a max-level cell
Truthy(c) == c.k = "nan" \/ (c.k \in {"int", "float"} /\ c.v # 0)
OrOne(c) == IF Truthy(c) THEN c ELSE IntCell(1)
IntGreater(n, c) == c.k # "nan" /\ n > c.v
MinIntCell(n, c) == IF c.k # "nan" /\ c.v < n THEN c ELSE IntCell(n)
CellStr(c) == IF c.k = "nan" THEN "nan"
              ELSE IF c.k = "float" THEN IntToStr(c.v) \o ".0"
              ELSE IntToStr(c.v)
Max(a, b) == IF a >= b THEN a ELSE b
Min(a, b) == IF a <= b THEN a ELSE b

\* enchant: the level after "Validate level", with the notices printed
enchant_level(level, max_level) ==
    IF ~IsIntLiteral(level)
    THEN [level |-> "1", out |-> <<Note("invalid_level", level)>>]
    ELSE LET level_num == IntVal(level)
         IN  IF level_num < 1 \/ IntGreater(level_num, max_level)
             THEN [level |-> CellStr(MinIntCell(Max(1, level_num), max_level)),
                   out |-> <<Note("warning_level", CellStr(max_level))>>]
             ELSE [level |-> level, out |-> <<>>]

\* enchant <player> <enchantment> [level]
enchant_command(cmd_line, env) ==
    LET parts == split(cmd_line)
    IN  IF Len(parts) < 3 THEN Printed(<<Note("usage", "enchant")>>)
        ELSE
        LET player == parts[2]
            enchantment == parts[3]
            level == IF Len(parts) > 3 THEN parts[4] ELSE "1"
            enchant_data == Matching(enchant_rows, enchantment)
        IN  IF ~resources_df.isdf
            THEN Relay("enchant " \o player \o " " \o enchantment \o " " \o level,
                       1 \notin env.relay_fail, "error_enchant")
            ELSE IF enchant_data = <<>>
            THEN Printed(<<NoteList("invalid_enchantment", enchantment,
                                    CollectSuggestions(enchant_rows, enchantment, <<>>))>>)
            ELSE LET v == enchant_level(level, OrOne(enchant_data[1].ml))
                 IN  After(v.out,
                           Relay("enchant " \o player \o " " \o enchant_data[1].rl
                                    \o " " \o v.level,
                                 1 \notin env.relay_fail, "error_enchant"))

\* variant of effect_seconds: a duration that is no integer is kept as typed
effect_seconds_typed(seconds) ==
    IF ~IsIntLiteral(seconds)
    THEN [value |-> seconds, out |-> <<Note("invalid_duration", seconds)>>]
    ELSE IF IntVal(seconds) < 1
    THEN [value |-> "1", out |-> <<Note("warning_duration", seconds)>>]
    ELSE [value |-> seconds, out |-> <<>>]

\* effect: the duration after "Validate seconds"
effect_seconds(seconds) ==
    IF ~IsIntLiteral(seconds)
    THEN [value |-> "30", out |-> <<Note("invalid_duration", seconds)>>]
    ELSE IF IntVal(seconds) < 1
    THEN [value |-> "1", out |-> <<Note("warning_duration", seconds)>>]
    ELSE [value |-> seconds, out |-> <<>>]

\* variant of effect_amplifier: the clamp has no upper end
effect_amplifier_nocap(amplifier) ==
    IF ~IsIntLiteral(amplifier)
    THEN [value |-> "0", out |-> <<Note("invalid_amplifier", amplifier)>>]
    ELSE LET amp_num == IntVal(amplifier)
         IN  IF amp_num < 0 \/ amp_num > 255
             THEN [value |-> IntToStr(Max(0, amp_num)),
                   out |-> <<Note("warning_amplifier", amplifier)>>]
             ELSE [value |-> amplifier, out |-> <<>>]

\* effect: the amplifier after "Validate amplifier"
effect_amplifier(amplifier) ==
    IF ~IsIntLiteral(amplifier)
    THEN [value |-> "0", out |-> <<Note("invalid_amplifier", amplifier)>>]
    ELSE LET amp_num == IntVal(amplifier)
         IN  IF amp_num < 0 \/ amp_num > 255
             THEN [value |-> IntToStr(Min(Max(0, amp_num), 255)),
                   out |-> <<Note("warning_amplifier", amplifier)>>]
             ELSE [value |-> amplifier, out |-> <<>>]

\* effect <player> <effect> [seconds] [amplifier] [hideParticles]
effect_command(cmd_line, env) ==
    LET parts == split(cmd_line)
    IN  IF Len(parts) < 3 THEN Printed(<<Note("usage", "effect")>>)
        ELSE
        LET player == parts[2]
            effect == parts[3]
            seconds == IF Len(parts) > 3 THEN parts[4] ELSE "30"
            amplifier == IF Len(parts) > 4 THEN parts[5] ELSE "0"
            hide_particles == IF Len(parts) > 5 THEN parts[6] ELSE "true"
            effect_data == Matching(effect_rows, effect)
        IN  IF ~resources_df.isdf
            THEN Relay("effect " \o player \o " " \o effect \o " " \o seconds \o " "
                          \o amplifier \o " " \o hide_particles,
                       1 \notin env.relay_fail, "error_effect")
            ELSE IF effect_data = <<>>
            THEN Printed(<<NoteList("invalid_effect", effect,
                                    CollectSuggestions(effect_rows, effect, <<>>))>>)
            ELSE LET s == effect_seconds(seconds)
                     a == effect_amplifier(amplifier)
                 IN  After(s.out \o a.out,
                           Relay("effect " \o player \o " " \o effect_data[1].rl \o " "
                                    \o s.value \o " " \o a.value \o " " \o hide_particles,
                                 1 \notin env.relay_fail, "error_effect"))

\* effectclear <player>: `_, player = parts` raises ValueError, outside the
\* try block, when the line has more than two tokens
effectclear_command(cmd_line, env) ==
    LET parts == split(cmd_line)
    IN  IF Len(parts) < 2 THEN Printed(<<Note("usage", "effectclear")>>)
        ELSE IF Len(parts) # 2 THEN [Ret EXCEPT !.raised = "Exception"]
        ELSE Relay("effect clear " \o parts[2], 1 \notin env.relay_fail, "error_clearing")

\* str.strip()
RECURSIVE RStrip(_)
RStrip(s) == IF s # "" /\ IsSpace(Ch(s, Len(s))) THEN RStrip(SubSeq(s, 1, Len(s) - 1)) ELSE s
strip(s) == RStrip(LStrip(s))

\* maxenchant: the rows the handler considers, and the ones it applies
enchantments_df == SelectSeq(resources_df.rows, LAMBDA r : r.rt = "enchantment" /\ r.has_at)

applies(row, itemtype) ==
    Contains("any", lower(row.at)) \/ Contains(lower(itemtype), lower(row.at))

matching_enchants(itemtype) == SelectSeq(enchantments_df, LAMBDA r : applies(r, itemtype))

\* the item types listed when nothing matches
RECURSIVE item_types(_)
item_types(rows) ==
    IF rows = <<>> THEN {}
    ELSE {strip(t) : t \in ToSet(split_on(rows[1].at, ","))} \cup item_types(Tail(rows))

\* the loop over matching_enchants: one transport call each, a failure is
\* reported and the loop goes on
RECURSIVE apply_enchants(_, _, _, _)
apply_enchants(matches, k, player, env) ==
    IF k > Len(matches) THEN [sent |-> <<>>, out |-> <<>>]
    ELSE LET r == server_send_command(
                      "enchant " \o player \o " " \o matches[k].rl \o " "
                          \o IntToStr(OrOne(matches[k].ml).v),
                      k \notin env.relay_fail)
             rest == apply_enchants(matches, k + 1, player, env)
         IN  [sent |-> <<r.call>> \o rest.sent,
              out |-> r.out \o <<IF r.raised THEN Note("failed_to_apply", matches[k].rl)
                                 ELSE Note("applied", matches[k].rl)>> \o rest.out]

\* maxenchant <itemtype...> <player>; int(float(NaN)) raises ValueError
\* while the matches are collected
maxenchant_command(cmd_line, env) ==
    LET parts == split(cmd_line)
    IN  IF Len(parts) < 3 THEN Printed(<<Note("usage", "maxenchant")>>)
        ELSE
        LET itemtype == join(" ", SubSeq(parts, 2, Len(parts) - 1))
            player == parts[Len(parts)]
            matches == matching_enchants(itemtype)
        IN  IF ~resources_df.isdf THEN Ret
            ELSE IF \E i \in 1..Len(matches) : OrOne(matches[i].ml).k = "nan"
            THEN Printed(<<Note("error_maxenchant", itemtype)>>)
            ELSE IF matches = <<>>
            THEN Printed(<<Note("no_enchantments", itemtype),
                           NoteList("valid_item_types", "", sorted(item_types(enchantments_df)))>>)
            ELSE LET a == apply_enchants(matches, 1, player, env)
                 IN  [Ret EXCEPT !.sent = a.sent,
                                 !.out = <<Note("applying", IntToStr(Len(matches)))>>
                                            \o a.out \o <<Note("finished", "")>>]

\* variant of position_is_numeric: the tilde forms of tp pass as well
position_is_numeric_or_tilde(coords) ==
    \A i \in 1..Len(coords) :
        \/ IsFloatLiteral(coords[i])
        \/ coords[i] = "~"
        \/ startswith(coords[i], "~") /\ IsFloatLiteral(Tail(coords[i]))

\* namedpos add: `[float(x) for x in coords]` raises for no coordinate
position_is_numeric(coords) ==
    \A i \in 1..Len(coords) : IsFloatLiteral(coords[i])

\* namedpos list | add <name> <x y z> | del <name> ...
namedpos_command(cmd_line, env) ==
    LET parts == split(cmd_line)
    IN  IF Len(parts) < 2 THEN Printed(<<Note("usage", "namedpos")>>)
        ELSE
        LET action == lower(parts[2])
            rows == named_pos_df.rows
        IN  IF action \notin {"add", "del", "list"} THEN Printed(<<Note("bad_action", action)>>)
            ELSE IF ~named_pos_df.isdf THEN Printed(<<Note("error_namedpos", "AttributeError")>>)
            ELSE IF action = "list"
            THEN Printed(<<NoteList("positions", "",
                     [i \in 1..Len(rows) |-> rows[i].pos_name \o ": " \o rows[i].pos_value])>>)
            ELSE IF Len(parts) < 4 THEN Printed(<<Note("usage", "namedpos add|del")>>)
            ELSE
            LET pos_name == parts[3]
                coords == split(replace(join(" ", SubSeq(parts, 4, Len(parts))), ",", " "))
                pos_value == join(" ", coords)
                existing == SelectSeq(rows, LAMBDA r : r.pos_name = pos_name)
                saved(ret) == IF env.db_ok THEN ret
                              ELSE [ret EXCEPT !.db_named_pos = db_named_pos,
                                               !.out = @ \o <<Note("error_namedpos", "sqlite3")>>]
            IN  IF action = "add"
                THEN IF Len(coords) # 3 THEN Printed(<<Note("bad_position_count", pos_name)>>)
                     ELSE IF ~position_is_numeric(coords)
                     THEN Printed(<<Note("bad_position_number", pos_name)>>)
                     ELSE IF existing # <<>>
                     THEN Printed(<<Note("position_exists", existing[1].pos_value)>>)
                     ELSE saved([Ret EXCEPT
                            !.named_pos_df = DF(LocAssign(rows, Len(rows),
                                [idx |-> Len(rows), pos_name |-> pos_name,
                                 pos_value |-> pos_value])),
                            !.db_named_pos = Append(db_named_pos,
                                [pos_name |-> pos_name, pos_value |-> pos_value]),
                            !.out = <<Note("added_position", pos_name)>>])
                ELSE IF existing = <<>> THEN Printed(<<Note("position_missing", pos_name)>>)
                     ELSE saved([Ret EXCEPT
                            !.named_pos_df = DF(SelectSeq(rows, LAMBDA r : r.pos_name # pos_name)),
                            !.db_named_pos = SelectSeq(db_named_pos,
                                                 LAMBDA r : r.pos_name # pos_name),
                            !.out = <<Note("removed_position", pos_name)>>])

\* variant of set_value: the assignment selects no row, every value is set
set_value_all(rows, label, value) ==
    [i \in 1..Len(rows) |-> [rows[i] EXCEPT !.value = value]]

\* settings_df.loc[label, "value"] = value
set_value(rows, label, value) ==
    [i \in 1..Len(rows) |->
        IF rows[i].idx = label THEN [rows[i] EXCEPT !.value = value] ELSE rows[i]]

\* player list | add <name> | del <name>
player_command(cmd_line, env) ==
    LET parts == split(cmd_line)
    IN  IF Len(parts) < 2 THEN Printed(<<Note("usage", "player")>>)
        ELSE
        LET action == lower(parts[2])
            \* settings_df is None: an empty DataFrame takes its place
            rows == settings_df.rows
            base == [Ret EXCEPT !.settings_df = DF(rows)]
            players_setting == SelectSeq(rows, LAMBDA r : r.setting = "players")
            current_players == IF players_setting # <<>> /\ players_setting[1].value # ""
                               THEN ToSet(split_on(players_setting[1].value, ","))
                               ELSE {}
        IN  IF action \notin {"add", "del", "list"} THEN Printed(<<Note("bad_action", action)>>)
            ELSE IF action = "list"
            THEN [base EXCEPT !.out = <<NoteList("players", "", sorted(current_players))>>]
            ELSE IF Len(parts) < 3 THEN [base EXCEPT !.out = <<Note("usage", "player add|del")>>]
            ELSE
            LET playername == parts[3]
                changed == IF action = "add" THEN current_players \cup {playername}
                           ELSE current_players \ {playername}
                new_value == join(",", sorted(changed))
                new_rows == IF players_setting = <<>>
                            THEN LocAssign(rows, Len(rows),
                                     [idx |-> Len(rows), setting |-> "players",
                                      value |-> new_value])
                            ELSE set_value(rows, players_setting[1].idx, new_value)
                new_db == IF players_setting # <<>>
                          THEN [i \in 1..Len(db_settings) |->
                                   IF db_settings[i].setting = "players"
                                   THEN [db_settings[i] EXCEPT !.value = new_value]
                                   ELSE db_settings[i]]
                          ELSE Append(db_settings, [setting |-> "players", value |-> new_value])
            IN  IF action = "add" /\ playername \in current_players
                THEN [base EXCEPT !.out = <<Note("player_exists", playername)>>]
                ELSE IF action = "del" /\ playername \notin current_players
                THEN [base EXCEPT !.out = <<Note("player_missing", playername)>>]
                ELSE [base EXCEPT
                        !.settings_df = DF(new_rows),
                        !.db_settings = IF env.db_ok THEN new_db ELSE db_settings,
                        !.out = <<Note(IF action = "add" THEN "added_player"
                                       ELSE "removed_player", playername)>>
                                \o (IF env.db_ok THEN <<>>
                                    ELSE <<Note("error_players", "sqlite3")>>)]

\* tp: one coordinate token passes "Validate each coordinate"
coord_ok(coord) ==
    \/ coord = "~"
    \/ startswith(coord, "~-")
    \/ startswith(coord, "~+")
    \/ IsFloatLiteral(coord)
    \/ startswith(coord, "~") /\ IsFloatLiteral(Tail(coord))

\* tp <player> <x y z | named_pos | @player>
tp_command(cmd_line, env) ==
    LET parts == split(cmd_line)
    IN  IF Len(parts) < 3 THEN Printed(<<Note("usage", "tp")>>)
        ELSE
        LET player == parts[2]
            typed == join(" ", SubSeq(parts, 3, Len(parts)))
            pos_match == SelectSeq(named_pos_df.rows, LAMBDA r : r.pos_name = typed)
            destination == IF pos_match # <<>> THEN pos_match[1].pos_value ELSE typed
            coord_parts == split(replace(destination, ",", " "))
            bad == {i \in 1..Len(coord_parts) : ~coord_ok(coord_parts[i])}
        IN  IF startswith(typed, "@")
            THEN Relay("tp " \o player \o " " \o Tail(typed),
                       1 \notin env.relay_fail, "error_tp")
            ELSE IF ~named_pos_df.isdf THEN Printed(<<Note("error_tp", "AttributeError")>>)
            ELSE IF Len(coord_parts) # 3 THEN Printed(<<Note("bad_position_count", typed)>>)
            ELSE IF bad # {}
            THEN LET first == coord_parts[CHOOSE i \in bad : \A j \in bad : i <= j]
                 IN  Printed(<<Note(IF startswith(first, "~") THEN "bad_relative_coordinate"
                                    ELSE "bad_coordinate", first)>>)
            ELSE Relay("tp " \o player \o " " \o join(" ", coord_parts),
                       1 \notin env.relay_fail, "error_tp")

\* variant of quickgive_command: the quantity typed is not passed on
quickgive_command_one(cmd_line, env) ==
    LET parts == split(cmd_line)
        default_rows == SelectSeq(settings_df.rows, LAMBDA r : r.setting = "default_player")
    IN  IF Len(parts) < 2 THEN Printed(<<Note("usage", "qg")>>)
        ELSE IF ~settings_df.isdf \/ default_rows = <<>>
        THEN Printed(<<Note("no_default_player", "")>>)
        ELSE give_command("give " \o default_rows[1].value \o " " \o parts[2] \o " 1", env)

\* qg <item> [qty]
quickgive_command(cmd_line, env) ==
    LET parts == split(cmd_line)
        default_rows == SelectSeq(settings_df.rows, LAMBDA r : r.setting = "default_player")
    IN  IF Len(parts) < 2 THEN Printed(<<Note("usage", "qg")>>)
        ELSE IF ~settings_df.isdf \/ default_rows = <<>>
        THEN Printed(<<Note("no_default_player", "")>>)
        ELSE give_command("give " \o default_rows[1].value \o " " \o parts[2] \o " "
                             \o (IF Len(parts) > 2 THEN parts[3] ELSE "1"),
                          env)

(***************************************************************************)
(* MinecraftConsole: the registry and the command loop.                    *)
(***************************************************************************)
\* console.commands after init_application has copied the registry
commands ==
    [name \in {"help", "exit", "sc", "raw", "give", "enchant", "effect", "effectclear",
               "maxenchant", "namedpos", "player", "qg", "tp"} |->
        CASE name = "help" -> "help_command"
          [] name = "exit" -> "exit_command"
          [] name = "sc" -> "send_command"
          [] name = "raw" -> "raw_command"
          [] name = "give" -> "give_command"
          [] name = "enchant" -> "enchant_command"
          [] name = "effect" -> "effect_command"
          [] name = "effectclear" -> "effectclear_command"
          [] name = "maxenchant" -> "maxenchant_command"
          [] name = "namedpos" -> "namedpos_command"
          [] name = "player" -> "player_command"
          [] name = "qg" -> "quickgive_command"
          [] name = "tp" -> "tp_command"]

\* variant of loop_except: an exception of the handler leaves the loop
loop_except_escapes(ret) ==
    IF ret.raised = "Exception" THEN [ret EXCEPT !.raised = "SystemExit"] ELSE ret

\* the exception a handler raised, as the loop's clauses treat it:
\* `except Exception` prints a notice, SystemExit passes through
loop_except(ret) ==
    IF ret.raised = "Exception"
    THEN [ret EXCEPT !.out = @ \o <<Note("error_occurred", "")>>]
    ELSE ret

\* the handler the loop calls for a line: cmd_name = command.split()[0],
\* looked up in self.commands; "none" when it calls no handler
dispatch(line) ==
    IF line = "" \/ split(line) = <<>> THEN "none"
    ELSE IF split(line)[1] \in DOMAIN commands THEN commands[split(line)[1]]
    ELSE "none"

\* variant of start_body: the handler gets the line without its command word
start_body_args(line, handled) ==
    IF line = "" THEN [call |-> <<>>, ret |-> Ret]
    ELSE LET parts == split(line)
         IN  IF parts = <<>>
             THEN [call |-> <<>>, ret |-> loop_except([Ret EXCEPT !.raised = "Exception"])]
             ELSE IF parts[1] \in DOMAIN commands
             THEN [call |-> << <<commands[parts[1]], join(" ", Tail(parts))>> >>,
                   ret |-> loop_except(handled)]
             ELSE [call |-> <<>>, ret |-> Printed(<<Note("unknown_command", parts[1])>>)]

\* the body of `while True` for the line the prompt returned; handled is
\* what `await self.commands[cmd_name]["func"](command)` does
start_body(line, handled) ==
    IF line = "" THEN [call |-> <<>>, ret |-> Ret]
    ELSE LET parts == split(line)
         IN  IF parts = <<>>
             \* command.split()[0] raises IndexError
             THEN [call |-> <<>>, ret |-> loop_except([Ret EXCEPT !.raised = "Exception"])]
             ELSE IF parts[1] \in DOMAIN commands
             THEN [call |-> << <<commands[parts[1]], line>> >>, ret |-> loop_except(handled)]
             ELSE [call |-> <<>>, ret |-> Printed(<<Note("unknown_command", parts[1])>>)]

\* one iteration of the loop, from the prompt to the end of the handler
Iteration(line, handled) ==
    /\ pc = "prompt"
    /\ LET b == start_body(line, handled)
       IN  /\ command' = line
           /\ invoked' = b.call
           /\ sent' = b.ret.sent
           /\ out' = b.ret.out
           /\ raised' = b.ret.raised
           /\ settings_df' = b.ret.settings_df
           /\ named_pos_df' = b.ret.named_pos_df
           /\ db_settings' = b.ret.db_settings
           /\ db_named_pos' = b.ret.db_named_pos
           /\ pc' = IF b.ret.raised = "SystemExit" THEN "exited" ELSE "handled"
    /\ UNCHANGED <<is_windows, connected, resources_df>>

\* back to the top of `while True`: the next prompt
loop_again ==
    /\ pc = "handled"
    /\ pc' = "prompt"
    /\ command' = "" /\ invoked' = <<>> /\ sent' = <<>> /\ out' = <<>> /\ raised' = "none"
    /\ UNCHANGED <<is_windows, connected, resources_df, settings_df, named_pos_df,
                   db_settings, db_named_pos>>

\* EOFError or KeyboardInterrupt at the prompt: the loop breaks
prompt_interrupt ==
    /\ pc = "prompt"
    /\ pc' = "stopped"
    /\ out' = <<Note("exiting_console", "")>>
    /\ UNCHANGED <<is_windows, connected, resources_df, settings_df, named_pos_df,
                   db_settings, db_named_pos, command, invoked, sent, raised>>

(***************************************************************************)
(* The iterations of the loop, by the line read.                           *)
(***************************************************************************)
BlankLine ==
    \E line \in BlankLines :
        dispatch(line) = "none" /\ Iteration(line, Ret)
UnknownCommand ==
    \E line \in UnknownLines :
        dispatch(line) = "none" /\ Iteration(line, Ret)
Help ==
    \E line \in HelpLines :
        dispatch(line) = "help_command" /\ Iteration(line, help_command(line, NoEnv))
Exit ==
    \E line \in ExitLines :
        dispatch(line) = "exit_command" /\ Iteration(line, exit_command(line, NoEnv))
Sc ==
    \E line \in ScLines, env \in OneCall :
        dispatch(line) = "send_command" /\ Iteration(line, send_command(line, env))
Raw ==
    \E line \in RawLines, env \in OneCall :
        dispatch(line) = "raw_command" /\ Iteration(line, raw_command(line, env))
Give ==
    \E line \in GiveLines, env \in OneCall :
        dispatch(line) = "give_command" /\ Iteration(line, give_command(line, env))
Enchant ==
    \E line \in EnchantLines, env \in OneCall :
        dispatch(line) = "enchant_command" /\ Iteration(line, enchant_command(line, env))
Effect ==
    \E line \in EffectLines, env \in OneCall :
        dispatch(line) = "effect_command" /\ Iteration(line, effect_command(line, env))
EffectClear ==
    \E line \in EffectClearLines, env \in OneCall :
        dispatch(line) = "effectclear_command"
            /\ Iteration(line, effectclear_command(line, env))
MaxEnchant ==
    \E line \in MaxEnchantLines, env \in ManyCalls :
        dispatch(line) = "maxenchant_command"
            /\ Iteration(line, maxenchant_command(line, env))
NamedPos ==
    \E line \in NamedPosLines, env \in StoreWrite :
        dispatch(line) = "namedpos_command" /\ Iteration(line, namedpos_command(line, env))
Player ==
    \E line \in PlayerLines, env \in StoreWrite :
        dispatch(line) = "player_command" /\ Iteration(line, player_command(line, env))
Tp ==
    \E line \in TpLines, env \in OneCall :
        dispatch(line) = "tp_command" /\ Iteration(line, tp_command(line, env))
Qg ==
    \E line \in QgLines, env \in OneCall :
        dispatch(line) = "quickgive_command"
            /\ Iteration(line, quickgive_command(line, env))

Next ==
    \/ startup
    \/ prompt_interrupt
    \/ loop_again
    \/ BlankLine
    \/ UnknownCommand
    \/ Help
    \/ Exit
    \/ Sc
    \/ Raw
    \/ Give
    \/ Enchant
    \/ Effect
    \/ EffectClear
    \/ MaxEnchant
    \/ NamedPos
    \/ Player
    \/ Tp
    \/ Qg

Spec == Init /\ [][Next]_vars

(***************************************************************************)
(* A session of namedpos and tp lines in which every write to the          *)
(* database succeeds.                                                      *)
(***************************************************************************)
PositionEdit ==
    \E line \in PositionLines, env \in WriteOk :
        /\ lower(split(line)[2]) = "add" => Len(db_named_pos) < MaxStored
        /\ dispatch(line) = "namedpos_command"
        /\ Iteration(line, namedpos_command(line, env))
Travel ==
    \E line \in TravelLines, env \in OneCall :
        dispatch(line) = "tp_command" /\ Iteration(line, tp_command(line, env))

PositionsNext ==
    \/ startup
    \/ prompt_interrupt
    \/ loop_again
    \/ PositionEdit
    \/ Travel

SpecPositions == Init /\ [][PositionsNext]_vars

(***************************************************************************)
(* A session of player lines; a write to the database may fail.            *)
(***************************************************************************)
PlayerEdit ==
    \E line \in PlayerSetLines, env \in StoreWrite :
        dispatch(line) = "player_command" /\ Iteration(line, player_command(line, env))

PlayersNext ==
    \/ startup
    \/ prompt_interrupt
    \/ loop_again
    \/ PlayerEdit

SpecPlayers == Init /\ [][PlayersNext]_vars

(***************************************************************************)
(* A session of namedpos and player lines; a write to the database may     *)
(* fail.                                                                   *)
(***************************************************************************)
StoreNamedPosLines == {"namedpos", "namedpos list", "namedpos add base 1 2 3",
                       "namedpos add base a b c", "namedpos del home now",
                       "namedpos del nowhere now"}
StorePlayerLines == {"player list", "player add bob", "player add steve",
                     "player del alex", "player del zed"}

NamedPosStore ==
    \E line \in StoreNamedPosLines, env \in StoreWrite :
        /\ startswith(line, "namedpos add") => Len(db_named_pos) < MaxStored
        /\ dispatch(line) = "namedpos_command"
        /\ Iteration(line, namedpos_command(line, env))
PlayerStore ==
    \E line \in StorePlayerLines, env \in StoreWrite :
        dispatch(line) = "player_command" /\ Iteration(line, player_command(line, env))

StoresNext ==
    \/ startup
    \/ prompt_interrupt
    \/ loop_again
    \/ NamedPosStore
    \/ PlayerStore

SpecStores == Init /\ [][StoresNext]_vars

(***************************************************************************)
(* A session of sc and maxenchant lines in which every transport call of a *)
(* handler, and the settle delay after it, is a step of its own.           *)
(*   pc = "running": the loop awaits the handler; "settling": the handler  *)
(*   awaits asyncio.sleep(0.1) inside MinecraftServer.send_command.        *)
(***************************************************************************)
CallLines == ScLines \cup MaxEnchantLines

\* variant of prompt_async: the prompt is awaited by a task of its own,
\* beside the handler
prompt_async_task == pc \in {"prompt", "running", "settling"}

\* the loop is at `command = await self.session.prompt_async(...)`: only at
\* the top of `while True`, after the previous handler was awaited
prompt_async == pc = "prompt"

\* what `await self.commands[cmd_name]["func"](command)` does for the
\* command of this iteration, given which transport calls fail
awaited_handler(env) ==
    CASE invoked[1][1] = "send_command" -> send_command(command, env)
      [] invoked[1][1] = "maxenchant_command" -> maxenchant_command(command, env)

\* the transport calls that failed so far in this iteration
failed_calls == {k \in 1..Len(sent) : sent[k].outcome = "failed"}

\* the transport calls the handler still has to make
calls_left ==
    LET all == awaited_handler([relay_fail |-> failed_calls, db_ok |-> TRUE]).sent
    IN  SubSeq(all, Len(sent) + 1, Len(all))

\* the prompt returns a line and the loop calls its handler
read_line ==
    /\ prompt_async
    /\ \E line \in CallLines :
          /\ dispatch(line) \in {"send_command", "maxenchant_command"}
          /\ command' = line
          /\ invoked' = << <<dispatch(line), line>> >>
    /\ sent' = <<>> /\ out' = <<>> /\ raised' = "none"
    /\ pc' = "running"
    /\ UNCHANGED <<is_windows, connected, resources_df, settings_df, named_pos_df,
                   db_settings, db_named_pos>>

\* the handler awaits MinecraftServer.send_command for its next call
transport_call ==
    /\ pc = "running"
    /\ calls_left # <<>>
    /\ \E relay_ok \in BOOLEAN :
          LET r == server_send_command(calls_left[1].text, relay_ok)
          IN  /\ sent' = Append(sent, r.call)
              /\ pc' = IF r.call.outcome = "relayed" THEN "settling" ELSE "running"
    /\ UNCHANGED <<is_windows, connected, resources_df, settings_df, named_pos_df,
                   db_settings, db_named_pos, command, invoked, out, raised>>

\* await asyncio.sleep(0.1) after a relayed call is over
settle ==
    /\ pc = "settling"
    /\ pc' = "running"
    /\ UNCHANGED <<is_windows, connected, resources_df, settings_df, named_pos_df,
                   db_settings, db_named_pos, command, invoked, sent, out, raised>>

\* the handler returns to the loop; what it printed is recorded here
handler_returns ==
    /\ pc = "running"
    /\ calls_left = <<>>
    /\ LET ret == loop_except(awaited_handler([relay_fail |-> failed_calls, db_ok |-> TRUE]))
       IN  /\ out' = ret.out
           /\ raised' = ret.raised
    /\ pc' = "handled"
    /\ UNCHANGED <<is_windows, connected, resources_df, settings_df, named_pos_df,
                   db_settings, db_named_pos, command, invoked, sent>>

CallsNext ==
    \/ startup
    \/ prompt_interrupt
    \/ loop_again
    \/ read_line
    \/ transport_call
    \/ settle
    \/ handler_returns

SpecCalls == Init /\ [][CallsNext]_vars

(***************************************************************************)
(* Properties of the command loop and of the handlers.                     *)
(***************************************************************************)
Handled == pc = "handled" /\ invoked # <<>>
Handler == invoked[1][1]
RegisteredNames == {"help", "exit", "sc", "raw", "give", "enchant", "effect", "effectclear",
                    "maxenchant", "namedpos", "player", "qg", "tp"}

\* C1: a line whose first token is a registered name has that command's
\* handler called exactly once with the whole line; a line whose first token
\* is not registered (prefixes and other casings included) calls no handler,
\* makes no transport call and prints only the unknown-command notice
\* naming the token.
C1_DispatchExact ==
    (pc \in {"handled", "exited"} /\ split(command) # <<>>) =>
        LET name == split(command)[1]
        IN  IF name \in RegisteredNames
            THEN Len(invoked) = 1 /\ invoked[1] = <<commands[name], command>>
            ELSE invoked = <<>> /\ sent = <<>> /\ out = <<Note("unknown_command", name)>>

C1_Witness ==
    /\ Handled
    /\ Handler = "give_command"
    /\ invoked[1][2] = command
    /\ command # join(" ", split(command))

\* C2: a line that splits into no tokens (empty or whitespace only) calls no
\* handler and prints nothing, and the loop goes back to the prompt.
C2_BlankLineNoOp ==
    (pc = "handled" /\ split(command) = <<>>) =>
        invoked = <<>> /\ sent = <<>> /\ out = <<>> /\ raised = "none"

FailureKinds == {"error_occurred", "error_sending", "error_giving", "error_enchant",
                 "error_effect", "error_clearing", "error_tp", "failed_to_apply",
                 "error_maxenchant", "error_namedpos", "error_players"}
Failed == raised = "Exception" \/ \E k \in 1..Len(sent) : sent[k].outcome \in {"refused", "failed"}
FailureNoted == \E k \in 1..Len(out) : out[k].kind \in FailureKinds

C4_ExitEndsLoop ==
    [][/\ pc # "exited"
       /\ (invoked' # <<>> /\ invoked'[1][1] = "exit_command")
              => (pc' = "exited" /\ sent' = <<>>)]_vars

C4_Witness == pc = "exited" /\ command = "exit now" /\ raised = "SystemExit"

\* the category a handler draws its resource ids from, and the token of
\* the line that names the resource
CategoryOf(h) ==
    CASE h \in {"give_command", "quickgive_command"} -> {"block", "item"}
      [] h \in {"enchant_command", "maxenchant_command"} -> {"enchantment"}
      [] h = "effect_command" -> {"effect"}
TokenAt(h) == IF h = "quickgive_command" THEN 2 ELSE 3
HasToken == Len(split(command)) >= TokenAt(Handler)
Typed == split(command)[TokenAt(Handler)]
CasingVariant(a, b) ==
    Len(a) = Len(b) /\ \A i \in 1..Len(a) : LowerCh[Ch(a, i)] = LowerCh[Ch(b, i)]
\* positions in the catalog of the entries of the handler's category that
\* the typed token is a casing variant of
Hits == {i \in 1..Len(ResourcesTable) :
            /\ ResourcesTable[i].rt \in CategoryOf(Handler)
            /\ CasingVariant(Typed, ResourcesTable[i].rl)}
FirstHit == ResourcesTable[CHOOSE i \in Hits : \A j \in Hits : i <= j]
CatalogIds(cat) == {ResourcesTable[i].rl : i \in {j \in 1..Len(ResourcesTable) :
                                                     ResourcesTable[j].rt \in cat}}
SentToken(k, n) == LET t == SplitOf(sent[k].text) IN IF Len(t) >= n THEN t[n] ELSE ""
Resolving == Handled /\ Handler \in {"give_command", "enchant_command", "effect_command"}
                 /\ resources_df.isdf /\ HasToken

\* C5: with the catalog loaded, when the token typed to give, enchant or
\* effect is a casing variant of the id of an entry of the handler's
\* category, the handler makes one transport call and the command carries
\* the id as the catalog spells it, taken from the first such entry in load
\* order.
C5_CasingResolvesToCanonical ==
    (Resolving /\ Hits # {}) => (Len(sent) = 1 /\ SentToken(1, 3) = FirstHit.rl)

C5_Witness ==
    /\ Resolving
    /\ Handler = "give_command"
    /\ Cardinality(Hits) = 2
    /\ Len(sent) = 1
    /\ Typed \notin CatalogIds({"block", "item"})
    /\ SentToken(1, 3) = FirstHit.rl

Builders == {"give_command", "quickgive_command", "enchant_command", "maxenchant_command",
             "effect_command"}
CarriesCatalogId ==
    \A k \in 1..Len(sent) : SentToken(k, 3) \in CatalogIds(CategoryOf(Handler))

\* C6 as stated: every command that the give, qg, enchant, maxenchant or
\* effect handler passes to the transport carries the id of a catalog entry
\* of the handler's category, whether or not the catalog was loaded.
C6_AlwaysCatalogId == (Handled /\ Handler \in Builders) => CarriesCatalogId

\* C6, amended: every command that the give, qg, enchant, maxenchant or
\* effect handler passes to the transport while the catalog is loaded
\* carries the id of a catalog entry of the handler's category.
C6_CatalogIdWhenLoaded ==
    (Handled /\ Handler \in Builders /\ resources_df.isdf) => CarriesCatalogId

C6_Witness ==
    /\ Handled
    /\ Handler = "quickgive_command"
    /\ resources_df.isdf
    /\ Len(sent) = 1
    /\ Typed # SentToken(1, 3)

\* the ids of the entries of the handler's category that contain the
\* lowercased token, in catalog order
Containing ==
    LET pool == SelectSeq(ResourcesTable,
                    LAMBDA r : r.rt \in CategoryOf(Handler)
                                  /\ Contains(lower(Typed), lower(r.rl)))
    IN  [i \in 1..Len(pool) |-> pool[i].rl]
InvalidKind(h) ==
    CASE h \in {"give_command", "quickgive_command"} -> "invalid_item"
      [] h = "enchant_command" -> "invalid_enchantment"
      [] h = "effect_command" -> "invalid_effect"

\* C7: with the catalog loaded, when the typed token is a casing variant of
\* no entry of the category, the handler prints the invalid-resource notice
\* with the suggestions: the first five (or all, when fewer) entries of the
\* category whose id contains the lowercased token anywhere, in catalog
\* order; none when no id contains it.
C7_Suggestions ==
    (Resolving /\ Hits = {}) =>
        out = <<NoteList(InvalidKind(Handler), Typed,
                         SubSeq(Containing, 1, Min(MaxSuggestions, Len(Containing))))>>

C7_Witness ==
    /\ Resolving
    /\ Hits = {}
    /\ Len(Containing) > MaxSuggestions
    /\ Len(out[1].list) = MaxSuggestions
    /\ ~startswith(lower(out[1].list[1]), lower(Typed))

UsageOrValidationKinds ==
    {"usage", "bad_action", "invalid_item", "invalid_enchantment", "invalid_effect",
     "no_enchantments", "bad_position_count", "bad_position_number", "bad_coordinate",
     "bad_relative_coordinate"}
ErrorNoted == \E k \in 1..Len(out) : out[k].kind \in UsageOrValidationKinds

\* C8: an iteration whose handler reports a usage error or a validation
\* error makes no transport call and leaves the entries of the settings and
\* named-position tables, in memory and in the database, as they were.
C8_ErrorsHaveNoSideEffect ==
    [][(pc = "prompt" /\ invoked' # <<>> /\ ErrorNoted') =>
           /\ sent' = <<>>
           /\ settings_df'.rows = settings_df.rows
           /\ named_pos_df'.rows = named_pos_df.rows
           /\ db_settings' = db_settings
           /\ db_named_pos' = db_named_pos]_vars

C8_Witness ==
    /\ Handled
    /\ Handler = "namedpos_command"
    /\ out = <<Note("bad_position_number", "base")>>
    /\ db_named_pos # InitialNamedPos
    /\ db_settings # InitialSettings

\* the level argument of the enchant line and the maximum of the resolved
\* entry (1 when the catalog gives none)
LevelArg == IF Len(split(command)) > 3 THEN split(command)[4] ELSE "1"
MaxOf(entry) == IF entry.ml = 0 THEN 1 ELSE entry.ml
\* the number a level token of a sent command denotes ("3.0" denotes 3)
LevelSent ==
    LET t == SentToken(1, 4)
        n == IF Len(t) > 2 /\ SubSeq(t, Len(t) - 1, Len(t)) = ".0"
             THEN SubSeq(t, 1, Len(t) - 2) ELSE t
    IN  IF IsIntLiteral(n) THEN IntVal(n) ELSE 0 - 1
Enchanting == Resolving /\ Handler = "enchant_command" /\ Hits # {} /\ IsIntLiteral(LevelArg)

\* C9: for a resolved enchantment with maximum M (1 when the catalog gives
\* none) and an integer level L, the enchant handler makes one transport
\* call whose level is min(max(1, L), M), and prints the level warning
\* exactly when L is outside 1..M.
C9_LevelClamp ==
    Enchanting =>
        LET L == IntVal(LevelArg)
            M == MaxOf(FirstHit)
        IN  /\ Len(sent) = 1
            /\ LevelSent = Min(Max(1, L), M)
            /\ (\E k \in 1..Len(out) : out[k].kind = "warning_level") <=> (L < 1 \/ L > M)

SecondsArg == IF Len(split(command)) > 3 THEN split(command)[4] ELSE "30"
AmplifierArg == IF Len(split(command)) > 4 THEN split(command)[5] ELSE "0"
Affecting == Resolving /\ Handler = "effect_command" /\ Hits # {}
                 /\ IsIntLiteral(SecondsArg) /\ IsIntLiteral(AmplifierArg)

\* C10: for a resolved effect and integer arguments s and a, the effect
\* handler makes one transport call whose duration is max(s, 1) and whose
\* amplifier is min(max(0, a), 255); a duration below 1 or an amplifier
\* outside 0..255 is warned about and the command is still sent.
C10_EffectClamp ==
    Affecting =>
        LET s == IntVal(SecondsArg)
            a == IntVal(AmplifierArg)
        IN  /\ Len(sent) = 1
            /\ IsIntLiteral(SentToken(1, 4)) /\ IntVal(SentToken(1, 4)) = Max(s, 1)
            /\ IsIntLiteral(SentToken(1, 5))
            /\ IntVal(SentToken(1, 5)) = Min(Max(0, a), 255)
            /\ (s < 1) => \E k \in 1..Len(out) : out[k].kind = "warning_duration"
            /\ (a < 0 \/ a > 255) => \E k \in 1..Len(out) : out[k].kind = "warning_amplifier"

C10_Witness ==
    /\ Affecting
    /\ IntVal(AmplifierArg) > 255
    /\ Len(sent) = 1
    /\ SentToken(1, 5) = "255"
    /\ \E k \in 1..Len(out) : out[k].kind = "warning_amplifier"

\* the enchant or effect handler ran on a line that names a resource
Numbered == Handled /\ Handler \in {"enchant_command", "effect_command"} /\ HasToken
Noted(kind) == \E k \in 1..Len(out) : out[k].kind = kind
\* every argument of the line that is no integer is replaced by its default
\* in the one command sent, with the notice that says so
DefaultsSent ==
    IF Handler = "enchant_command"
    THEN ~IsIntLiteral(LevelArg) =>
             (Len(sent) = 1 /\ SentToken(1, 4) = "1" /\ Noted("invalid_level"))
    ELSE /\ ~IsIntLiteral(SecondsArg) =>
                (Len(sent) = 1 /\ SentToken(1, 4) = "30" /\ Noted("invalid_duration"))
         /\ ~IsIntLiteral(AmplifierArg) =>
                (Len(sent) = 1 /\ SentToken(1, 5) = "0" /\ Noted("invalid_amplifier"))

\* C11 as stated: whenever the resource of an enchant or effect line is not
\* turned away, a level, duration or amplifier that is no integer is replaced
\* by its default (1, 30, 0) with a warning, and exactly one command built
\* with the default is sent, whether or not the catalog was loaded.
C11_DefaultOnParseFailure ==
    (Numbered /\ (resources_df.isdf => Hits # {})) => DefaultsSent

\* C11, amended: with the catalog loaded and the resource resolved, a level,
\* duration or amplifier that is no integer is replaced by its default
\* (1, 30, 0) with a warning, and exactly one command built with the default
\* is sent.
C11_DefaultWhenLoaded ==
    (Numbered /\ resources_df.isdf /\ Hits # {}) => DefaultsSent

C11_Witness ==
    /\ Numbered
    /\ Handler = "effect_command"
    /\ resources_df.isdf
    /\ Hits # {}
    /\ SecondsArg = "x"
    /\ Len(sent) = 1
    /\ SentToken(1, 4) = "30"
    /\ Noted("invalid_duration")

\* the tokens of a coordinate text: its comma-separated pieces, each split
\* at whitespace
RECURSIVE Flatten(_)
Flatten(seqs) == IF seqs = <<>> THEN <<>> ELSE Head(seqs) \o Flatten(Tail(seqs))
CoordTokens(text) ==
    LET pieces == split_on(text, ",")
    IN  Flatten([i \in 1..Len(pieces) |-> SplitOf(pieces[i])])
\* what follows the player of a tp line, and the value it stands for
TypedDestination(parts) == join(" ", SubSeq(parts, 3, Len(parts)))
Destination(parts) ==
    LET hit == SelectSeq(named_pos_df.rows, LAMBDA r : r.pos_name = TypedDestination(parts))
    IN  IF hit # <<>> THEN hit[1].pos_value ELSE TypedDestination(parts)
StoresKept ==
    /\ settings_df'.rows = settings_df.rows
    /\ named_pos_df'.rows = named_pos_df.rows
    /\ db_settings' = db_settings
    /\ db_named_pos' = db_named_pos
\* the step runs tp on coordinates or a position name, or namedpos add
TpCoordinates ==
    /\ pc = "prompt" /\ invoked' # <<>> /\ invoked'[1][1] = "tp_command"
    /\ named_pos_df.isdf
    /\ Len(split(command')) >= 3
    /\ ~startswith(split(command')[3], "@")
NamedPosAdding ==
    /\ pc = "prompt" /\ invoked' # <<>> /\ invoked'[1][1] = "namedpos_command"
    /\ named_pos_df.isdf
    /\ Len(split(command')) >= 4
    /\ lower(split(command')[2]) = "add"

ShapeOk(t) ==
    \/ IsFloatLiteral(t)
    \/ t = "~"
    \/ startswith(t, "~") /\ IsFloatLiteral(Tail(t))
TpSending ==
    /\ Handled /\ Handler = "tp_command"
    /\ Len(split(command)) >= 3
    /\ ~startswith(split(command)[3], "@")
    /\ sent # <<>>

\* C13: tp on coordinates or a position name sends a command only when each
\* of the three coordinate tokens is a floating-point literal, `~`, or `~`
\* followed by a signed or unsigned floating-point literal; `~+` or `~-`
\* followed by text that is no number is turned away with no transport
\* call.
C13_TokenShapes ==
    TpSending =>
        LET t == SplitOf(sent[1].text)
        IN  Len(sent) = 1 /\ Len(t) = 5 /\ \A k \in 3..5 : ShapeOk(t[k])

\* the tokens of the value of a namedpos add line, and whether its name is
\* in the table already
AddTokens == CoordTokens(join(" ", SubSeq(split(command'), 4, Len(split(command')))))
AddName == split(command')[3]
NameIsNew == \A i \in 1..Len(named_pos_df.rows) : named_pos_df.rows[i].pos_name # AddName
\* the add stored the tokens, joined by single spaces, under the name: in
\* memory, and in the database unless the write failed
AddStored ==
    /\ Noted("added_position")'
    /\ \E i \in 1..Len(named_pos_df'.rows) :
           /\ named_pos_df'.rows[i].pos_name = AddName
           /\ named_pos_df'.rows[i].pos_value = join(" ", AddTokens)
    /\ \/ Noted("error_namedpos")'
       \/ \E i \in 1..Len(db_named_pos') :
              db_named_pos'[i] = [pos_name |-> AddName,
                                  pos_value |-> join(" ", AddTokens)]

NamesOf(rows) == {rows[i].pos_name : i \in 1..Len(rows)}
\* the step runs namedpos del on a line of n tokens naming a stored position
Deleting(n) ==
    /\ pc = "prompt" /\ invoked' # <<>> /\ invoked'[1][1] = "namedpos_command"
    /\ Len(split(command')) = n
    /\ lower(split(command')[2]) = "del"
    /\ split(command')[3] \in NamesOf(named_pos_df.rows)

\* C16: the three-token line `namedpos del <name>`, for a name in the
\* table, removes the position from the table in memory and, unless the
\* write is reported as failed, from the database.
C16_DelRemoves ==
    [][Deleting(3) =>
           /\ split(command')[3] \notin NamesOf(named_pos_df'.rows)
           /\ \/ split(command')[3] \notin NamesOf(db_named_pos')
              \/ Noted("error_namedpos")']_vars

\* C17: a position of the table keeps its name and value through every
\* namedpos command that is not a del of its own name: no add and no del of
\* another name changes or removes it.
C17_PositionsKept ==
    [][(pc = "prompt" /\ invoked' # <<>> /\ invoked'[1][1] = "namedpos_command") =>
           \A i \in 1..Len(named_pos_df.rows) :
               LET r == named_pos_df.rows[i]
                   parts == split(command')
               IN  (Len(parts) >= 3 /\ lower(parts[2]) = "del" /\ parts[3] = r.pos_name)
                   \/ \E j \in 1..Len(named_pos_df'.rows) :
                          /\ named_pos_df'.rows[j].pos_name = r.pos_name
                          /\ named_pos_df'.rows[j].pos_value = r.pos_value]_vars

\* tp ran, with the table loaded, on a line `tp <player> <word>`
TpByName ==
    /\ Handled /\ Handler = "tp_command"
    /\ named_pos_df.isdf
    /\ Len(split(command)) = 3

\* C18: in a session whose writes all succeed the named_pos table of the
\* database holds the positions added and not deleted since; for each name
\* N it holds, `tp P N` makes exactly one transport call, `tp P x y z` with
\* the value x y z stored for N.
C18_TpNamedPosition ==
    (TpByName /\ split(command)[3] \in NamesOf(db_named_pos)) =>
        /\ Len(sent) = 1
        /\ \E i \in 1..Len(db_named_pos) :
               /\ db_named_pos[i].pos_name = split(command)[3]
               /\ sent[1].text = "tp " \o split(command)[2] \o " "
                                     \o db_named_pos[i].pos_value

\* the step runs namedpos add or del on a line that passes the usage check
NamedPosEditing(action) ==
    /\ pc = "prompt" /\ invoked' # <<>> /\ invoked'[1][1] = "namedpos_command"
    /\ named_pos_df.isdf
    /\ Len(split(command')) >= 4
    /\ lower(split(command')[2]) = action
StoredNames == NamesOf(named_pos_df.rows) \cup NamesOf(db_named_pos)
NamesDistinct ==
    /\ Cardinality(NamesOf(named_pos_df.rows)) = Len(named_pos_df.rows)
    /\ Cardinality(NamesOf(db_named_pos)) = Len(db_named_pos)

\* C15: namedpos add of a name that the store holds, in memory or in the
\* database, and namedpos del of a name that the store does not hold, fail
\* and leave the table in memory and the table of the database unchanged;
\* and in neither table do two positions share a name.
C15_NamesUnique ==
    [][/\ (NamedPosEditing("add") /\ split(command')[3] \in StoredNames) =>
              (StoresKept /\ ~Noted("added_position")')
       /\ (NamedPosEditing("del") /\ split(command')[3] \notin StoredNames) =>
              (StoresKept /\ ~Noted("removed_position")')
       /\ NamesDistinct']_vars

\* the value of the players setting in memory ("" when there is no such
\* row), and the values of the players rows of the database
StoredPlayers ==
    LET hit == SelectSeq(settings_df.rows, LAMBDA r : r.setting = "players")
    IN  IF hit = <<>> THEN "" ELSE hit[1].value
PersistedPlayers ==
    {db_settings[i].value : i \in {j \in 1..Len(db_settings) :
                                        db_settings[j].setting = "players"}}
\* how often the name stands in a comma-joined list
Occurrences(name, value) ==
    LET hay == "," \o value \o ","
        needle == "," \o name \o ","
    IN  Cardinality({i \in 0..(Len(hay) - Len(needle)) :
                        SubSeq(hay, i + 1, i + Len(needle)) = needle})
\* the step runs player add or del on a line that names a player
PlayerEditing(action) ==
    /\ pc = "prompt" /\ invoked' # <<>> /\ invoked'[1][1] = "player_command"
    /\ Len(split(command')) >= 3
    /\ lower(split(command')[2]) = action
PlayerName == split(command')[3]

\* the step runs player add on a name without a comma
PlayerAdding == PlayerEditing("add") /\ ~Contains(",", PlayerName)

PlayerChanged ==
    /\ PlayerEditing("add") \/ PlayerEditing("del")
    /\ ~Contains(",", PlayerName)
    /\ Noted("added_player")' \/ Noted("removed_player")'
    /\ ~Noted("error_players")'
\* the player set the handler read, and the set after the change
PlayersBefore == IF StoredPlayers = "" THEN {} ELSE ToSet(split_on(StoredPlayers, ","))
PlayersAfter ==
    IF lower(split(command')[2]) = "add" THEN PlayersBefore \cup {PlayerName}
    ELSE PlayersBefore \ {PlayerName}
\* the text lists exactly the names of the set, in ascending order, each
\* once, joined by commas
JoinedSorted(value, S) ==
    IF S = {} THEN value = ""
    ELSE LET names == split_on(value, ",")
         IN  /\ ToSet(names) = S
             /\ \A i \in 1..(Len(names) - 1) : StrLess(names[i], names[i + 1])

Maxing ==
    /\ Handled /\ Handler = "maxenchant_command"
    /\ resources_df.isdf
    /\ Len(split(command)) >= 3
MaxItemType == join(" ", SubSeq(split(command), 2, Len(split(command)) - 1))
MaxPlayer == split(command)[Len(split(command))]
\* the enchantments of the catalog that the handler matches to the item
\* type, in catalog order
MaxMatches ==
    SelectSeq(ResourcesTable,
              LAMBDA r : /\ r.rt = "enchantment" /\ r.at # ""
                         /\ \/ Contains("any", LowerOf(r.at))
                            \/ Contains(LowerOf(MaxItemType), LowerOf(r.at)))
NoteIn(kind, arg) == \E k \in 1..Len(out) : out[k].kind = kind /\ out[k].arg = arg

\* C21: maxenchant makes exactly one transport call per matching
\* enchantment, `enchant <player> <id> <max_level>` (1 when the catalog
\* gives no maximum), in catalog order; a call that fails is reported for
\* its enchantment and the calls for the others are still made.
C21_OneCallPerMatch ==
    Maxing =>
        /\ Len(sent) = Len(MaxMatches)
        /\ \A k \in 1..Len(MaxMatches) :
               /\ sent[k].text = "enchant " \o MaxPlayer \o " " \o MaxMatches[k].rl
                                     \o " " \o IntToStr(MaxOf(MaxMatches[k]))
               /\ sent[k].outcome \in {"refused", "failed"}
                      <=> NoteIn("failed_to_apply", MaxMatches[k].rl)
               /\ sent[k].outcome \in {"relayed", "logged"}
                      <=> NoteIn("applied", MaxMatches[k].rl)

\* the tags of an entry's applies_to text, lowercased
TagsOf(r) == {LowerOf(strip(t)) : t \in ToSet(split_on(r.at, ","))}
\* the ids of the enchantments whose tag set holds the item type or `any`
TagMatches ==
    {ResourcesTable[i].rl : i \in {j \in 1..Len(ResourcesTable) :
        /\ ResourcesTable[j].rt = "enchantment" /\ ResourcesTable[j].at # ""
        /\ TagsOf(ResourcesTable[j]) \cap {LowerOf(MaxItemType), "any"} # {}}}

\* C22: when maxenchant gets as far as applying enchantments or reporting
\* that none fits, the enchantments it applies for item type T are exactly
\* the entries whose comma-separated applies_to tags include T or `any`; an
\* entry that only has T inside a longer tag is not applied.
C22_TagSetMatch ==
    (Maxing /\ (Noted("applying") \/ Noted("no_enchantments"))) =>
        {SentToken(k, 3) : k \in 1..Len(sent)} = TagMatches

\* the step runs qg on a line that names an item; the default player of
\* the settings in memory; the give line that stands for the qg line
QuickGiving ==
    /\ pc = "prompt" /\ invoked' # <<>> /\ invoked'[1][1] = "quickgive_command"
    /\ Len(split(command')) >= 2
DefaultPlayers == SelectSeq(settings_df.rows, LAMBDA r : r.setting = "default_player")
GiveLineOf(line) ==
    "give " \o DefaultPlayers[1].value \o " " \o split(line)[2] \o " "
        \o (IF Len(split(line)) > 2 THEN split(line)[3] ELSE "1")

\* C23: with a default player D in the settings, `qg <item> [qty]` prints
\* and sends what `give D <item> <qty>` (qty 1 when not typed) prints and
\* sends in the same state, for the same answer of the transport; with no
\* default player it prints the notice for that and sends nothing.
C23_QgIsGive ==
    [][QuickGiving =>
          IF DefaultPlayers = <<>>
          THEN sent' = <<>> /\ out' = <<Note("no_default_player", "")>>
          ELSE \E env \in OneCall :
                  LET g == give_command(GiveLineOf(command'), env)
                  IN  sent' = g.sent /\ out' = g.out /\ raised' = g.raised]_vars

C23_Witness ==
    /\ Handled
    /\ Handler = "quickgive_command"
    /\ command = "qg DIRT 5"
    /\ resources_df.isdf
    /\ Len(sent) = 1
    /\ sent[1].text = "give steve Dirt 5"

\* C24: from the end of startup on the connection flag is set, on either
\* platform and with or without the tmux session, and no command of the
\* loop clears it; no transport call is refused for want of a connection.
C24_AlwaysConnected ==
    pc # "init" =>
        /\ connected
        /\ \A k \in 1..Len(sent) : sent[k].outcome # "refused"

\* the handlers that make one transport call, with the notice each prints
\* when the call raises
SingleCallHandlers == {"send_command", "raw_command", "give_command", "enchant_command",
                       "effect_command", "effectclear_command", "tp_command"}
ErrorKindOf(h) ==
    CASE h \in {"send_command", "raw_command"} -> "error_sending"
      [] h = "give_command" -> "error_giving"
      [] h = "enchant_command" -> "error_enchant"
      [] h = "effect_command" -> "error_effect"
      [] h = "effectclear_command" -> "error_clearing"
      [] h = "tp_command" -> "error_tp"
\* the tmux invocation of the handler's transport call failed
RelayFailed ==
    /\ Handled /\ Handler \in SingleCallHandlers
    /\ Len(sent) = 1 /\ sent[1].outcome = "failed"

\* C25 as stated: when the relay fails inside a single-command handler the
\* transport prints its error and the exception reaches the catch-all of
\* the loop, which prints its generic failure notice.
C25_ReachesCatchAll ==
    RelayFailed => (Noted("failed_to_send") /\ Noted("error_occurred"))

\* C25, amended: when the relay fails inside a single-command handler the
\* transport prints its error, the handler catches the exception and
\* prints its own error notice last, nothing reaches the catch-all of the
\* loop (no generic notice), and the loop continues.
C25_HandlerCatches ==
    RelayFailed =>
        /\ Len(out) >= 2
        /\ out[Len(out) - 1] = Note("failed_to_send", sent[1].text)
        /\ out[Len(out)] = Note(ErrorKindOf(Handler), "relay failed")
        /\ ~Noted("error_occurred")
        /\ raised = "none"
        /\ pc = "handled"

C25_Witness ==
    /\ RelayFailed
    /\ Handler = "tp_command"
    /\ out = <<Note("failed_to_send", "tp steve 1 2 3"), Note("error_tp", "relay failed")>>
    /\ raised = "none"


(***************************************************************************)
(* C26.  Concurrency: one command at a time.                               *)
(***************************************************************************)
HandlerActive == pc \in {"running", "settling"}

\* one step of the session: a line is taken only at the prompt, with no
\* handler active and nothing left of the previous iteration; while a
\* handler is active the command and the handler stay the same, the loop
\* does not return to the prompt, and the calls only grow, by one call of
\* that handler at a time
OneAtATime ==
    /\ (invoked' # invoked /\ invoked' # <<>>)
          => (pc = "prompt" /\ invoked = <<>> /\ sent = <<>> /\ Len(invoked') = 1)
    /\ HandlerActive
          => /\ command' = command /\ invoked' = invoked
             /\ pc' \in {"running", "settling", "handled"}
             /\ sent' = sent \/ (pc = "running" /\ Len(sent') = Len(sent) + 1
                                  /\ SubSeq(sent', 1, Len(sent)) = sent)
    /\ pc = "settling" => (sent' = sent /\ pc' = "running")
    /\ sent' # sent => (HandlerActive \/ pc = "handled")

\* when the handler has returned, the calls of the iteration are exactly
\* the calls of that one handler for that one line, in its order
CallsOfOneHandler ==
    (pc = "handled" /\ invoked # <<>>)
        => sent = awaited_handler([relay_fail |-> failed_calls, db_ok |-> TRUE]).sent

\* C26: commands are handled strictly one at a time: the next line is not
\* read until the current handler has completed, with all its transport
\* calls and their settle delays; at most one handler is active and the
\* transport calls of two commands never interleave
C26_OneAtATime == [][OneAtATime]_vars /\ []CallsOfOneHandler

\* in the settle delay after the second call of a handler
C26_Witness ==
    /\ pc = "settling"
    /\ Handler = "maxenchant_command"
    /\ Len(sent) = 2
    /\ sent[1].text # sent[2].text


(***************************************************************************)
(* C27.  Frame of namedpos and player.                                     *)
(***************************************************************************)
Handling(h) == pc = "prompt" /\ invoked' # <<>> /\ invoked'[1][1] = h

DefaultPlayerRows(rows) == SelectSeq(rows, LAMBDA r : r.setting = "default_player")

\* C27: no namedpos or player command (list, add or del, successful or
\* not) makes a transport call or changes the Reference Catalog; namedpos
\* leaves the Settings Store unchanged, in memory and persisted, and player
\* leaves the Named Position Store and the default_player setting unchanged
C27_Frame ==
    [][/\ (Handling("namedpos_command") \/ Handling("player_command"))
              => (sent' = <<>> /\ resources_df' = resources_df)
       /\ Handling("namedpos_command")
              => (settings_df' = settings_df /\ db_settings' = db_settings)
       /\ Handling("player_command")
              => /\ named_pos_df' = named_pos_df /\ db_named_pos' = db_named_pos
                 /\ DefaultPlayerRows(settings_df'.rows) = DefaultPlayerRows(settings_df.rows)
                 /\ DefaultPlayerRows(db_settings') = DefaultPlayerRows(db_settings)]_vars

\* a player was removed while a position added earlier and the default
\* player are in place
C27_Witness ==
    /\ pc = "handled"
    /\ Handler = "player_command"
    /\ Noted("removed_player")
    /\ Len(named_pos_df.rows) = 2
    /\ DefaultPlayerRows(settings_df.rows) # <<>>
    /\ resources_df.isdf


(***************************************************************************)
(* C28.  effectclear.                                                      *)
(***************************************************************************)
EffectClearing == pc = "handled" /\ invoked # <<>> /\ Handler = "effectclear_command"

\* C28: an effectclear line of at least two tokens makes exactly one
\* transport call, `effect clear <second token>`; only a line of fewer than
\* two tokens is turned away, with the usage message; no effectclear line
\* makes the handler raise
C28_EffectClear ==
    EffectClearing =>
        /\ raised = "none"
        /\ IF Len(split(command)) >= 2
           THEN /\ Len(sent) = 1
                /\ sent[1].text = "effect clear " \o split(command)[2]
                /\ ~Noted("usage")
           ELSE sent = <<>> /\ out = <<Note("usage", "effectclear")>>


(***************************************************************************)
(* C29.  The table in memory and the table of the database.                *)
(***************************************************************************)
PairsOf(rows) == {<<rows[i].pos_name, rows[i].pos_value>> : i \in 1..Len(rows)}

\* C29: after any sequence of namedpos add and del commands, also ones
\* whose write to the database fails, the named positions in memory and
\* the named_pos table of the database hold the same (name, value) pairs
C29_MemoryMirrorsDatabase ==
    named_pos_df.isdf => PairsOf(named_pos_df.rows) = PairsOf(db_named_pos)


(***************************************************************************)
(* C30.  player add and player del as inverse changes of the player set.   *)
(***************************************************************************)
\* the player set the handler reads from a stored players value
ReadBack(value) == IF value = "" THEN {} ELSE ToSet(split_on(value, ","))

\* the stored players value that player del X leaves of a value
DelFrom(value, X) ==
    IF X \in ReadBack(value) THEN join(",", sorted(ReadBack(value) \ {X})) ELSE value

\* C30: after an accepted `player add X` the player set read back from the
\* stored players setting is the previous set plus X, and a following
\* `player del X` (which leaves DelFrom of the stored value) restores the
\* previous set; for every token X, also one that contains a comma
C30_AddDelRoundTrip ==
    [][/\ (PlayerEditing("add") /\ Noted("added_player")') =>
              /\ ReadBack(StoredPlayers') = PlayersBefore \cup {PlayerName}
              /\ ReadBack(DelFrom(StoredPlayers', PlayerName)) = PlayersBefore
       /\ PlayerEditing("del") => StoredPlayers' = DelFrom(StoredPlayers, PlayerName)]_vars
====
